---------------------------- MODULE Spec2Model ----------------------------
(***************************************************************************)
(* A model of the VIF reader of src/PythonVersion.py: the mode pre-scan    *)
(* (detect_kb_mode), the resynchronising stream scanner (process_records   *)
(* with its lookahead window and ensure_bytes), the record validator and   *)
(* field decoder (process_record and the sv_* / format_* helpers).         *)
(*                                                                         *)
(* Python buffers are 0-indexed; a buffer is a sequence here and At reads  *)
(* it with the source's 0-based offset.  A Python exception is the value   *)
(* err |-> TRUE of a decoding result and the control state "error" of the  *)
(* reader.  A formatted number is a Cell: sign, digits and decimals of the *)
(* string the f"{x:.nf}" conversion prints; the empty string is EmptyCell. *)
(*                                                                         *)
(* A local variable of the source that is read more than once is the       *)
(* parameter of a helper operator that models the rest of the function;    *)
(* the helper is named after the function and the local.                   *)
(***************************************************************************)
EXTENDS Integers, Sequences, FiniteSets, TLC

\* ------------------------------------------------------------------------
\* Program constants
\* ------------------------------------------------------------------------
FLOAT16_DIVISOR == 1000000
INT16_DIVISOR == 2
RECORD_SIZE_EXPECTED == 68
MIN_RECORD_BYTES == 12
SCAN_CHUNK_SIZE == 262144
RECORD_BUFFER_SIZE == 70

\* sys.maxsize, the OVERLOAD status.  It is only ever compared for equality;
\* the largest integer of the model checker stands for it.
sys_maxsize == 2147483647

\* ord("V"), ord("I"), ord("B")
ordV == 86
ordI == 73
ordB == 66

\* ------------------------------------------------------------------------
\* Bit and byte helpers
\* ------------------------------------------------------------------------
Min(a, b) == IF a < b THEN a ELSE b
Max(a, b) == IF a > b THEN a ELSE b
Abs(a) == IF a < 0 THEN 0 - a ELSE a
SetMin(S) == CHOOSE m \in S : \A k \in S : m <= k

\* the value of F at e, with e computed once: a local of the source that is
\* assigned once and read many times
With(e, F(_)) == CHOOSE r \in {F(x) : x \in {e}} : TRUE

\* a & b for naturals
RECURSIVE BitAnd(_, _)
BitAnd(a, b) ==
    IF a = 0 \/ b = 0 THEN 0
    ELSE (a % 2) * (b % 2)
             + 2 * With(<<a \div 2, b \div 2>>, LAMBDA h : BitAnd(h[1], h[2]))

\* buf[off] with the source's 0-based offset
At(buf, off) == buf[off + 1]

\* buf[lo:hi]
Slice(buf, lo, hi) == SubSeq(buf, lo + 1, hi)

Zeros(n) == [k \in 1..n |-> 0]

u16_le(buf, off) == At(buf, off) + At(buf, off + 1) * 256

\* u &= 0xFFFF; u - 0x10000 if u & 0x8000 else u
_to_i16(u) ==
    IF (u % 65536) \div 32768 = 1 THEN (u % 65536) - 65536 ELSE u % 65536

\* v = u16_le(buf, off); v - 0x10000 if v & 0x8000 else v
i16_le(buf, off) ==
    IF u16_le(buf, off) \div 32768 = 1 THEN u16_le(buf, off) - 65536
    ELSE u16_le(buf, off)

\* ------------------------------------------------------------------------
\* Odd-tie formatter
\* ------------------------------------------------------------------------
EmptyCell == [empty |-> TRUE, neg |-> FALSE, digits |-> 0, decimals |-> 0]
Cell(neg, digits, decimals) ==
    [empty |-> FALSE, neg |-> neg, digits |-> digits, decimals |-> decimals]

Pow10(n) == 10 ^ n

\* The rounding of format_fixed_odd on abs_scaled = a / sd, with fl the floor
\* a \div sd and frac the remainder (a % sd) / sd: above one half up, below
\* one half down, a tie to the odd neighbour.  The fractions met are
\* multiples of 1/sd with sd far below 1/tie_eps, so the tolerance band of
\* the source holds the exact tie only.
RoundOdd(a, sd) ==
    IF 2 * (a % sd) > sd THEN (a \div sd) + 1
    ELSE IF 2 * (a % sd) < sd THEN a \div sd
    ELSE IF (a \div sd) % 2 = 0 THEN (a \div sd) + 1 ELSE a \div sd

\* format_fixed_odd(value, decimals) for value = num / den, den > 0:
\* scaled = value * 10^decimals, as a fraction in integers.
format_fixed_odd(num, den, decimals) ==
    IF den % Pow10(decimals) = 0
    THEN Cell(num < 0, RoundOdd(Abs(num), den \div Pow10(decimals)), decimals)
    ELSE Cell(num < 0, RoundOdd(Abs(num) * Pow10(decimals), den), decimals)

\* floor(sqrt(n)) by bisection, 0 <= n < 2^31
RECURSIVE IsqrtBetween(_, _, _)
RECURSIVE IsqrtStep(_, _, _, _)
IsqrtStep(n, lo, hi, mid) ==
    IF mid * mid <= n THEN IsqrtBetween(n, mid, hi)
    ELSE IsqrtBetween(n, lo, mid - 1)
IsqrtBetween(n, lo, hi) ==
    IF lo = hi THEN lo
    ELSE With(<<lo, hi, (lo + hi + 1) \div 2>>,
              LAMBDA b : IsqrtStep(n, b[1], b[2], b[3]))
Isqrt(n) == IsqrtBetween(n, 0, 46340)

\* the rounding of 100 * sqrt(n) for n = r*r + d, r = floor(sqrt(n)), with
\* fl = 100 * r + j its floor
SqrtRound4(r, d, j) ==
    IF 10000 * d - 200 * r * j - j * j > 100 * r + j THEN 100 * r + j + 1
    ELSE 100 * r + j

SqrtCell(n, r, decimals) ==
    IF decimals = 2
    THEN Cell(FALSE, IF n - r * r > r THEN r + 1 ELSE r, 2)
    ELSE Cell(FALSE,
              SqrtRound4(r, n - r * r,
                         CHOOSE q \in 0..99 :
                            /\ 200 * r * q + q * q <= 10000 * (n - r * r)
                            /\ \/ q = 99
                               \/ 200 * r * (q + 1) + (q + 1) * (q + 1)
                                      > 10000 * (n - r * r)),
              decimals)

\* format_fixed_odd(math.sqrt(n) * 0.01, decimals) for decimals 2 and 4:
\* scaled is sqrt(n) resp. 100 * sqrt(n), never a tie for an integer n.
format_sqrt_centi(n, decimals) ==
    With(Isqrt(n), LAMBDA r : SqrtCell(n, r, decimals))

\* ------------------------------------------------------------------------
\* Field codec
\* ------------------------------------------------------------------------
Ok(v) == [err |-> FALSE, val |-> v]
Raise == [err |-> TRUE, val |-> 0]

\* sv_from_float16 from its local v2 on: v3 << v2 raises ValueError
\* (negative shift count) when the exponent field is 0.
sv_from_float16_v2(value_i16, v2) ==
    IF v2 <= 19
    THEN IF v2 < 0 THEN Raise ELSE Ok(((value_i16 % 2048) + 2048) * 2 ^ v2)
    ELSE Ok(value_i16)

sv_from_float16(value_i16) ==
    sv_from_float16_v2(value_i16, ((value_i16 % 65536) \div 2048) - 1)

is_special_value(v) == -4 <= v /\ v <= -1

is_overload(v) == v > 99999999

\* sv_is_value_valid, branch v1 <= 0x13, from result = v2 << v1 on
sv_is_value_valid_result(result) ==
    IF result + 4 > 3
    THEN IF result <= 99999999 THEN Ok(0) ELSE Ok(sys_maxsize)
    ELSE Ok(result)

\* sv_is_value_valid from its local v1 on.  (result & 0xFFFFFFFF) <
\* 0xFFFFFFFC reads the signed 16-bit result as unsigned 32-bit: it fails
\* exactly for -4..-1.  v2 << v1 raises ValueError when v1 is -1.
sv_is_value_valid_v1(value_u16, v1) ==
    IF v1 > 19
    THEN IF _to_i16(value_u16) >= 0 \/ _to_i16(value_u16) < -4 THEN Ok(0)
         ELSE Ok(_to_i16(value_u16))
    ELSE IF v1 < 0 THEN Raise
         ELSE sv_is_value_valid_result(
                  (((value_u16 % 2048) % 256)
                      + ((((value_u16 % 2048) \div 256) % 8) + 8) * 256) * 2 ^ v1)

sv_is_value_valid(value_u16) ==
    sv_is_value_valid_v1(value_u16, (value_u16 \div 2048) - 1)

status_to_string(status) ==
    IF status = -1 THEN "DISCONNECTED"
    ELSE IF status = -2 THEN "DATA INVALID"
    ELSE IF status = -3 THEN "NO DATA"
    ELSE IF status = -4 THEN "NOT RESPONDING"
    ELSE IF status = sys_maxsize THEN "OVERLOAD"
    ELSE ""

Decimals(long_fmt, short) == IF long_fmt THEN 4 ELSE short

\* format_float16 from its local int_val on
format_float16_int_val(int_val, long_fmt) ==
    IF int_val.err THEN Raise
    ELSE IF is_special_value(int_val.val) \/ is_overload(int_val.val)
    THEN Ok(EmptyCell)
    ELSE Ok(format_fixed_odd(int_val.val, FLOAT16_DIVISOR, Decimals(long_fmt, 2)))

format_float16(value_u16, long_fmt) ==
    With(sv_from_float16(_to_i16(value_u16)),
         LAMBDA int_val : format_float16_int_val(int_val, long_fmt))

format_int16(value_i16, long_fmt) ==
    IF is_special_value(value_i16) THEN EmptyCell
    ELSE format_fixed_odd(value_i16, INT16_DIVISOR, Decimals(long_fmt, 1))

get_signal_quality(signal_strength_raw) ==
    IF signal_strength_raw = 0 THEN "Unknown"
    ELSE IF signal_strength_raw > 23 THEN "Excellent"
    ELSE IF signal_strength_raw > 15 THEN "Good"
    ELSE IF signal_strength_raw > 7 THEN "Low"
    ELSE "Bad"

\* the tag and the number printed with five digits; typ is
\* value_u16 & 0xC000, number is value_u16 & 0x3FFF
format_geophone(value_u16) ==
    IF value_u16 \div 16384 = 1
    THEN [tag |-> "TDA", number |-> value_u16 % 16384]
    ELSE IF value_u16 \div 16384 = 2
    THEN [tag |-> "TDS", number |-> value_u16 % 16384]
    ELSE IF value_u16 \div 16384 = 3 THEN [tag |-> "???", number |-> 0]
    ELSE [tag |-> "unknown", number |-> value_u16 % 16384]

get_peak_type_cat(peak_type) ==
    IF peak_type = 0 THEN "vcatnone"
    ELSE IF peak_type = 1 THEN "vcat1"
    ELSE IF peak_type = 2 THEN "vcat2"
    ELSE IF peak_type = 3 THEN "vcat3"
    ELSE "vcat"

\* a reader that leaves out the mask test
is_valid_to_process_no_mask(record_size, read_type) ==
    read_type <= 9 /\ record_size = 68

is_valid_to_process(record_size, read_type) ==
    /\ read_type <= 9
    /\ record_size = 68
    /\ BitAnd(2 ^ read_type, 69) # 0

max_day(month, year_yy) ==
    IF month \in {1, 3, 5, 7, 8, 10, 12} THEN 31
    ELSE IF month \in {4, 6, 9, 11} THEN 30
    ELSE IF year_yy % 4 = 0 THEN 29 ELSE 28

datetime_valid(second, minute, hour, day, month, year_yy) ==
    IF second > 59 \/ minute > 59 \/ hour > 23 THEN FALSE
    ELSE IF year_yy > 99 THEN FALSE
    ELSE IF month < 1 \/ month > 12 THEN FALSE
    ELSE 1 <= day /\ day <= max_day(month, year_yy)

\* a reader that takes every distance for the normal cadence
get_read_type_always_normal(delta) == 2

get_read_type_from_delta(delta) == IF delta = 68 THEN 2 ELSE 5

\* ------------------------------------------------------------------------
\* Axis decoding
\* ------------------------------------------------------------------------
\* the offsets, within an axis block, of the fields axis_status tests, in
\* the order it tests them: v, u, a, cv
StatusFieldOffsets == <<0, 6, 8, 10>>

\* a reader that takes the status of the velocity field for the axis
axis_status_velocity_only(s) == s[1]

\* axis_status from the statuses s of the four fields on: the first that is
\* not 0; a field is only looked at when the ones before it gave 0, so an
\* exception of a later field is not met.
axis_status_first(s) ==
    IF s[1].err \/ s[1].val # 0 THEN s[1]
    ELSE IF s[2].err \/ s[2].val # 0 THEN s[2]
    ELSE IF s[3].err \/ s[3].val # 0 THEN s[3]
    ELSE s[4]

axis_status(rec, off) ==
    With(<<sv_is_value_valid(u16_le(rec, off + StatusFieldOffsets[1])),
           sv_is_value_valid(u16_le(rec, off + StatusFieldOffsets[2])),
           sv_is_value_valid(u16_le(rec, off + StatusFieldOffsets[3])),
           sv_is_value_valid(u16_le(rec, off + StatusFieldOffsets[4]))>>,
         LAMBDA s : axis_status_first(s))

get_overall_status(x, y, z) ==
    IF x = sys_maxsize \/ y = sys_maxsize \/ z = sys_maxsize THEN sys_maxsize
    ELSE IF x # 0 THEN x
    ELSE IF y # 0 THEN y
    ELSE IF z # 0 THEN z
    ELSE 0

DirData(v, kb, ft, u, a, cv, cf, state) ==
    [v |-> v, kb |-> kb, ft |-> ft, u |-> u, a |-> a, cv |-> cv, cf |-> cf,
     state |-> state]

\* the KB branch of parse_direction from int_val on: math.sqrt raises
\* ValueError on a negative number; kb_val = sqrt(int_val) * 0.01 is at or
\* below 0.1 exactly when int_val <= 100
kb_mode_cell(int_val, long_fmt) ==
    IF int_val.err \/ int_val.val < 0 THEN Raise
    ELSE IF int_val.val <= 100
    THEN Ok(format_fixed_odd(0, 1, Decimals(long_fmt, 2)))
    ELSE Ok(format_sqrt_centi(int_val.val, Decimals(long_fmt, 2)))

\* the ZC branch: empty unless raw > 0, else 1024.0 / raw
zc_mode_cell(kbzc_raw, long_fmt) ==
    IF kbzc_raw <= 0 THEN Ok(EmptyCell)
    ELSE Ok(format_fixed_odd(1024, kbzc_raw, Decimals(long_fmt, 2)))

\* the second per-axis field of parse_direction
kb_field(kbzc_raw, is_extended, long_fmt) ==
    IF is_extended
    THEN With(sv_from_float16(kbzc_raw),
              LAMBDA int_val : kb_mode_cell(int_val, long_fmt))
    ELSE zc_mode_cell(kbzc_raw, long_fmt)

\* parse_direction from its formatted fields on
parse_direction_fields(f) ==
    IF f.v.err \/ f.kb.err \/ f.u.err \/ f.a.err \/ f.cv.err THEN Raise
    ELSE Ok(DirData(f.v.val, f.kb.val, f.ft, f.u.val, f.a.val, f.cv.val,
                    f.cf, ""))

parse_direction(rec, off, is_extended, status, long_fmt) ==
    IF status # 0
    THEN Ok(DirData(EmptyCell, EmptyCell, EmptyCell, EmptyCell, EmptyCell,
                    EmptyCell, EmptyCell, status_to_string(status)))
    ELSE With([v |-> format_float16(u16_le(rec, off), long_fmt),
               kb |-> kb_field(i16_le(rec, off + 2), is_extended, long_fmt),
               ft |-> format_int16(i16_le(rec, off + 4), long_fmt),
               u |-> format_float16(u16_le(rec, off + 6), long_fmt),
               a |-> format_float16(u16_le(rec, off + 8), long_fmt),
               cv |-> format_float16(u16_le(rec, off + 10), long_fmt),
               cf |-> format_int16(i16_le(rec, off + 12), long_fmt)],
              LAMBDA f : parse_direction_fields(f))

\* ------------------------------------------------------------------------
\* State
\* ------------------------------------------------------------------------
VARIABLES
    stream,            \* the bytes of the input file
    fpos,              \* the file object's position
    print_header, print_number, filter_today, long_format,
    date_filter,       \* <<year, month, day>> of the "YYYY-MM-DD" string, <<>> for None
    today,             \* <<year, month, day>> of datetime.date.today()
    chunk_size,        \* the SCAN_CHUNK_SIZE the window is allocated from
    is_kb_mode, records_processed, records_skipped, record_counter,
    window,            \* window[0:window_len]; window_len is Len(window)
    window_cap,        \* len(window), the allocated size
    scan_idx, window_start_pos, record_count,
    last_record,       \* <<>> for None
    last_record_pos,
    out,               \* the lines written
    pc,                \* start, scan, flush, done, returned, error
    calls,             \* history: the (rec, read_type) of every process_record call
    found              \* history: record_start_pos of every candidate counted

config == <<print_header, print_number, filter_today, long_format, date_filter,
            today, chunk_size>>
reader == <<is_kb_mode, records_processed, records_skipped, record_counter>>
scanner == <<window, window_cap, scan_idx, window_start_pos, record_count,
             last_record, last_record_pos, found>>
vars == <<stream, fpos, config, reader, scanner, out, pc, calls>>

\* ------------------------------------------------------------------------
\* process_record
\* ------------------------------------------------------------------------
\* the offsets of the x, y and z blocks
AxisOffsets == {14, 28, 42}

\* date_s of the record, as the numbers the string is printed from
record_date(rec) == <<2000 + At(rec, 11), At(rec, 10), At(rec, 9)>>

\* the date filters: filter_today first, else date_filter when set
date_filter_rejects(rec) ==
    IF filter_today THEN record_date(rec) # today
    ELSE IF date_filter # <<>> THEN record_date(rec) # date_filter
    ELSE FALSE

\* record_type & 0xFD
type_masked(record_type) == record_type - 2 * ((record_type \div 2) % 2)

\* every early return of process_record that counts the record as skipped
record_rejected(rec, read_type) ==
    \/ ~ is_valid_to_process(u16_le(rec, 4), read_type)
    \/ type_masked(At(rec, 3)) # 136
    \/ u16_le(rec, 4) # RECORD_SIZE_EXPECTED
    \/ ~ datetime_valid(At(rec, 6), At(rec, 7), At(rec, 8), At(rec, 9),
                        At(rec, 10), At(rec, 11))
    \/ date_filter_rejects(rec)

\* counter = "" unless record_size > 0x43 and len(rec) >= 67
counter_field(rec) ==
    IF u16_le(rec, 4) > 67 /\ Len(rec) >= 67
    THEN [present |-> TRUE,
          value |-> At(rec, 64) + (At(rec, 65) + At(rec, 66) * 256) * 256]
    ELSE [present |-> FALSE, value |-> 0]

signal_strength_field(ss_raw) ==
    IF ss_raw # 0 THEN Cell(2 * ss_raw - 113 < 0, Abs(2 * ss_raw - 113), 0)
    ELSE EmptyCell

\* process_record from the formatted axis data and overall_v on: the row
decode_row_fields(rec, overall_status, data) ==
    IF data.x.err \/ data.y.err \/ data.z.err \/ data.overall_v.err THEN Raise
    ELSE Ok([date |-> record_date(rec),
             time |-> <<At(rec, 8), At(rec, 7), At(rec, 6)>>,
             counter_column |-> print_number,
             counter |-> IF print_number THEN counter_field(rec)
                         ELSE [present |-> FALSE, value |-> 0],
             overall_state |-> status_to_string(overall_status),
             overall_v |-> data.overall_v.val,
             x |-> data.x.val, y |-> data.y.val, z |-> data.z.val,
             temperature |-> format_fixed_odd(At(rec, 56) - 55, 2,
                                              Decimals(long_format, 1)),
             voltage |-> format_fixed_odd(At(rec, 57) + 245, 100,
                                          Decimals(long_format, 2)),
             memory_use |-> At(rec, 58) % 128,
             usb_powered |-> At(rec, 58) \div 128,
             signal_strength |-> signal_strength_field(At(rec, 59) % 32),
             signal_quality |-> get_signal_quality(At(rec, 59) % 32),
             transmitted |-> (At(rec, 59) \div 32) % 2,
             all_transmitted |-> (At(rec, 59) \div 64) % 2,
             peak_type_cat |-> get_peak_type_cat(At(rec, 60) % 4),
             code |-> IF (At(rec, 60) \div 4) % 2 = 1 THEN "SBR" ELSE "DIN",
             error_code |-> At(rec, 61),
             geophone |-> format_geophone(u16_le(rec, 62)),
             clock_changed |-> At(rec, 60) \div 64])

\* process_record from overall_status on
decode_row_overall(rec, status, overall_status) ==
    With([x |-> parse_direction(rec, 14, At(rec, 3) = 138, status.x.val,
                                long_format),
          y |-> parse_direction(rec, 28, At(rec, 3) = 138, status.y.val,
                                long_format),
          z |-> parse_direction(rec, 42, At(rec, 3) = 138, status.z.val,
                                long_format),
          overall_v |-> IF overall_status # 0 THEN Ok(EmptyCell)
                        ELSE format_float16(u16_le(rec, 12), long_format)],
         LAMBDA data : decode_row_fields(rec, overall_status, data))

\* process_record from the three axis statuses on
decode_row_status(rec, status) ==
    IF status.x.err \/ status.y.err \/ status.z.err THEN Raise
    ELSE With(get_overall_status(status.x.val, status.y.val, status.z.val),
              LAMBDA overall_status :
                  decode_row_overall(rec, status, overall_status))

\* the row process_record writes for an accepted record, or the exception
decode_row(rec) ==
    With([x |-> axis_status(rec, 14), y |-> axis_status(rec, 28),
          z |-> axis_status(rec, 42)],
         LAMBDA status : decode_row_status(rec, status))

\* a reader that decodes the row and does not write it
write_row_silent(row, next_pc) ==
    /\ UNCHANGED out
    /\ pc' = IF row.err THEN "error" ELSE next_pc

\* out.write of the row, or the exception leaving process_record
write_row(row, next_pc) ==
    IF row.err
    THEN /\ UNCHANGED out
         /\ pc' = "error"
    ELSE /\ out' = Append(out, [kind |-> "row", row |-> row.val])
         /\ pc' = next_pc

\* process_record(rec, read_type, out); next_pc is where the caller goes on
\* when the call returns, "error" where the reader ends when it raises.
process_record(rec, read_type, next_pc) ==
    /\ calls' = Append(calls, [rec |-> rec, read_type |-> read_type])
    /\ IF record_rejected(rec, read_type)
       THEN /\ records_skipped' = records_skipped + 1
            /\ UNCHANGED <<records_processed, record_counter, out>>
            /\ pc' = next_pc
       ELSE /\ records_processed' = records_processed + 1
            /\ record_counter' = record_counter + 1
            /\ UNCHANGED records_skipped
            /\ \E row \in {decode_row(rec)} : write_row(row, next_pc)

\* ------------------------------------------------------------------------
\* detect_kb_mode
\* ------------------------------------------------------------------------
RECURSIVE detect_kb_state0(_, _)

\* state 3: the marker is at v; tail = f.read(9)
detect_kb_header(f, v) ==
    IF Len(f) - (v + 3) < 9 THEN FALSE
    ELSE IF At(f, v + 3) = 138 THEN TRUE
    ELSE IF u16_le(f, v + 4) - 12 > 0
    THEN detect_kb_state0(f, v + u16_le(f, v + 4))
    ELSE detect_kb_state0(f, v + 12)

\* a 'V' was read at v in state 0: the byte after it is read in state 1 and
\* the one after that in state 2; a byte that does not continue the marker
\* puts the machine back in state 0 and is not looked at again
detect_kb_at_V(f, v) ==
    IF v >= Len(f) THEN FALSE
    ELSE IF v + 1 < Len(f) /\ At(f, v + 1) = ordI
    THEN IF v + 2 < Len(f) /\ At(f, v + 2) = ordB
         THEN detect_kb_header(f, v)
         ELSE detect_kb_state0(f, v + 3)
    ELSE detect_kb_state0(f, v + 2)

\* state 0 with the file at pos: bytes are read up to the next 'V'
detect_kb_state0(f, pos) ==
    With(SetMin({k \in pos..(Len(f) - 1) : At(f, k) = ordV}
                \cup {Max(pos, Len(f))}),
         LAMBDA v : detect_kb_at_V(f, v))

detect_kb_mode(f) == detect_kb_state0(f, 0)

\* ------------------------------------------------------------------------
\* process_records: the lookahead window
\* ------------------------------------------------------------------------
\* the locals of process_records that ensure_bytes reads and writes, with
\* the file position; ok is the value ensure_bytes returned
WindowState ==
    [window |-> window, cap |-> window_cap, scan_idx |-> scan_idx,
     window_start_pos |-> window_start_pos, fpos |-> fpos, ok |-> TRUE]

RECURSIVE GrowTo(_, _)
\* new_size = len(window) * 2, doubled while below required_index
GrowTo(new_size, required_index) ==
    IF new_size < required_index THEN GrowTo(new_size * 2, required_index)
    ELSE new_size

\* if scan_idx > 0: the unconsumed bytes move to the front of the window
ensure_compact(w) ==
    IF w.scan_idx > 0
    THEN [w EXCEPT !.window = Slice(w.window, w.scan_idx, Len(w.window)),
                   !.window_start_pos = w.window_start_pos + w.scan_idx,
                   !.scan_idx = 0]
    ELSE w

\* if window_len == len(window): a bigger window
ensure_grow(w, required_index) ==
    IF Len(w.window) = w.cap
    THEN [w EXCEPT !.cap = GrowTo(w.cap * 2, required_index)]
    ELSE w

\* chunk = f.read(n), appended to the window
ensure_append(f, w, n) ==
    [w EXCEPT !.window = w.window \o Slice(f, w.fpos, w.fpos + n),
              !.fpos = w.fpos + n]

RECURSIVE ensure_bytes(_, _, _)

\* the read of one pass of the loop of ensure_bytes, and the passes after it
ensure_read(f, w, required_index) ==
    IF w.fpos >= Len(f) THEN [w EXCEPT !.ok = FALSE]
    ELSE With(ensure_append(f, w, Min(w.cap - Len(w.window), Len(f) - w.fpos)),
              LAMBDA read : ensure_bytes(f, read, required_index))

\* ensure_bytes(required_index): required_index is not moved when the
\* window is compacted
ensure_bytes(f, w, required_index) ==
    IF required_index <= Len(w.window) THEN [w EXCEPT !.ok = TRUE]
    ELSE With(ensure_grow(ensure_compact(w), required_index),
              LAMBDA room : ensure_read(f, room, required_index))

IsMarkerAt(buf, i) ==
    At(buf, i) = ordV /\ At(buf, i + 1) = ordI /\ At(buf, i + 2) = ordB

\* the inner loop: the first i >= scan_idx with i + 2 < window_len that
\* holds the marker, else the first i with i + 2 >= window_len
find_marker(buf, from) ==
    SetMin({i \in from..(Len(buf) - 3) : IsMarkerAt(buf, i)}
           \cup {Max(from, Len(buf) - 2)})

advance_of(record_size) ==
    IF record_size < MIN_RECORD_BYTES THEN MIN_RECORD_BYTES ELSE record_size

\* what one pass of the scan loop comes to: kind is exhausted (the first
\* ensure_bytes failed), nomarker, header (the second failed), body (the
\* third failed) or candidate; w is the window after it, i the local i
Iteration(kind, w, i, advance) ==
    [kind |-> kind, w |-> w, i |-> i, advance |-> advance]

scan_after_body(w, i, advance) ==
    IF ~ w.ok THEN Iteration("body", w, i, advance)
    ELSE Iteration("candidate", w, i, advance)

\* from record_size on; i is not moved when ensure_bytes compacts
scan_after_header(f, w, i) ==
    IF ~ w.ok THEN Iteration("header", w, i, 0)
    ELSE With(ensure_bytes(f, w, i + advance_of(u16_le(w.window, i + 4))),
              LAMBDA e3 : scan_after_body(e3, i,
                                          advance_of(u16_le(w.window, i + 4))))

scan_after_find(f, w, i) ==
    IF i + 2 >= Len(w.window)
    THEN Iteration("nomarker", [w EXCEPT !.scan_idx = i], i, 0)
    ELSE With(ensure_bytes(f, w, i + MIN_RECORD_BYTES),
              LAMBDA e2 : scan_after_header(f, e2, i))

scan_after_ensure(f, w) ==
    IF ~ w.ok THEN Iteration("exhausted", w, 0, 0)
    ELSE With(find_marker(w.window, w.scan_idx),
              LAMBDA i : scan_after_find(f, w, i))

\* one pass of the while True loop of process_records, up to the candidate
scan_iteration(f, w) ==
    With(ensure_bytes(f, w, w.scan_idx + 3),
         LAMBDA e1 : scan_after_ensure(f, e1))

\* last_record[:copy_len] = window[i : i + copy_len], the rest zero
copy_record(buf, i, advance) ==
    Slice(buf, i, i + Min(advance, RECORD_BUFFER_SIZE))
        \o Zeros(RECORD_BUFFER_SIZE - Min(advance, RECORD_BUFFER_SIZE))

\* ------------------------------------------------------------------------
\* Inputs
\* ------------------------------------------------------------------------
\* the longest stream is MaxPieces pieces
MaxPieces == 3
\* the SCAN_CHUNK_SIZE of the runs whose stream outgrows the window
SmallChunk == 40
\* process_record is called directly with read types 0..MaxReadType
MaxReadType == 10

LE16(u) == <<u % 256, u \div 256>>

\* raw 16-bit field values: a plausible measurement, the four sentinels, an
\* overload, a value whose exponent field is 0, a negative pass-through value
Raw ==
    [good |-> 16384, disconnected |-> 65535, data_invalid |-> 65534,
     no_data |-> 65533, not_responding |-> 65532, overload |-> 40960,
     exp_zero |-> 256, negative |-> 45056, zero |-> 0, quarter |-> 25]

\* the 14 bytes of an axis block: v, kb/zc, ft, u, a, cv, cf
AxisBytes(v, kbzc, ft, u, a, cv, cf) ==
    LE16(v) \o LE16(kbzc) \o LE16(ft) \o LE16(u) \o LE16(a) \o LE16(cv) \o LE16(cf)

GoodAxis ==
    AxisBytes(Raw.good, Raw.good, 101, Raw.good, Raw.good, Raw.good, 37)

\* temperature, voltage, memory, signal, flags, error code, geophone serial,
\* counter, and the last byte of the 68
SensorBytes == <<110, 120, 130, 115, 69, 3>> \o LE16(4660) \o <<7, 1, 0, 0>>

\* bytes 12..67 of a record
BodyBytes(overall_v, x, y, z) == LE16(overall_v) \o x \o y \o z \o SensorBytes

GoodBody == BodyBytes(Raw.good, GoodAxis, GoodAxis, GoodAxis)

\* second, minute, hour, day, month, two-digit year
GoodDate == <<0, 30, 14, 15, 3, 24>>

HeaderBytes(type, size, date) == <<ordV, ordI, ordB, type>> \o LE16(size) \o date

Record(type, size, date, body) == HeaderBytes(type, size, date) \o body

\* the pieces streams are made of
PieceKinds == {"R88", "R8A", "Rzero", "R12", "R80", "NV", "N5", "T8", "T20"}

PieceBytes(kind) ==
    CASE kind = "R88" -> Record(136, 68, GoodDate, GoodBody)
      [] kind = "R8A" -> Record(138, 68, GoodDate, GoodBody)
      [] kind = "Rzero" ->
             Record(136, 68, GoodDate,
                    BodyBytes(Raw.good,
                              AxisBytes(Raw.zero, Raw.good, 101, Raw.good,
                                        Raw.good, Raw.good, 37),
                              GoodAxis, GoodAxis))
      [] kind = "R12" -> HeaderBytes(136, 0, GoodDate)
      [] kind = "R80" -> Record(136, 80, GoodDate, GoodBody) \o Zeros(12)
      [] kind = "NV" -> <<ordV>>
      [] kind = "N5" -> <<1, 2, 3, 4, 5>>
      [] kind = "T8" -> <<ordV, ordI, ordB, 136, 68, 0, 1, 2>>
      [] kind = "T20" -> HeaderBytes(136, 68, GoodDate) \o Zeros(8)

RECURSIVE Cat(_)
Cat(pieces) ==
    IF pieces = <<>> THEN <<>>
    ELSE PieceBytes(Head(pieces)) \o Cat(Tail(pieces))

PieceSeqs == UNION {[1..n -> PieceKinds] : n \in 1..MaxPieces}

Scenario(s, chunk, header, number, ftoday, long, dfilter) ==
    [stream |-> s, chunk_size |-> chunk, print_header |-> header,
     print_number |-> number, filter_today |-> ftoday, long_format |-> long,
     date_filter |-> dfilter]

\* whole files, read with the window of the source and with a small one
ScanScenarios ==
    {Scenario(Cat(ps), chunk, TRUE, TRUE, FALSE, FALSE, <<>>) :
        ps \in PieceSeqs, chunk \in {SmallChunk, SCAN_CHUNK_SIZE}}

\* the options under which process_record is called directly
UnitScenarios ==
    {Scenario(<<>>, SCAN_CHUNK_SIZE, FALSE, number, ftoday, long, dfilter) :
        number \in BOOLEAN, ftoday \in BOOLEAN, long \in BOOLEAN,
        dfilter \in {<<>>, <<2024, 3, 15>>}}

Scenarios == ScanScenarios \cup UnitScenarios

\* dates and times around every bound datetime_valid tests
UnitDates ==
    {GoodDate, <<59, 59, 23, 31, 12, 99>>, <<60, 30, 14, 15, 3, 24>>,
     <<0, 60, 14, 15, 3, 24>>, <<0, 30, 24, 15, 3, 24>>,
     <<0, 30, 14, 15, 3, 100>>, <<0, 30, 14, 15, 0, 24>>,
     <<0, 30, 14, 15, 13, 24>>, <<0, 30, 14, 0, 3, 24>>,
     <<0, 30, 14, 32, 1, 24>>, <<0, 30, 14, 31, 4, 24>>,
     <<0, 30, 14, 30, 4, 24>>, <<0, 30, 14, 29, 2, 24>>,
     <<0, 30, 14, 30, 2, 24>>, <<0, 30, 14, 29, 2, 23>>,
     <<0, 30, 14, 28, 2, 23>>, <<0, 30, 14, 16, 3, 24>>}

\* records that differ in what process_record validates
HeaderRecords ==
    {Record(type, size, date, GoodBody) \o Zeros(2) :
        type \in {136, 138}, size \in {68}, date \in UnitDates}
    \cup {Record(type, size, GoodDate, GoodBody) \o Zeros(2) :
        type \in {128, 136, 137, 138, 140}, size \in {67, 68, 69}}

\* records that differ in the fields of the x block
XAxisVariants ==
    {AxisBytes(v, kbzc, 101, u, a, cv, 37) :
        v \in {Raw.good, Raw.disconnected, Raw.exp_zero, Raw.overload},
        kbzc \in {Raw.good, Raw.zero, Raw.quarter, Raw.negative},
        u \in {Raw.good, Raw.data_invalid},
        a \in {Raw.good, Raw.no_data},
        cv \in {Raw.good, Raw.not_responding}}

FieldRecords ==
    {Record(type, 68, GoodDate, BodyBytes(Raw.good, x, GoodAxis, GoodAxis))
        \o Zeros(2) : type \in {136, 138}, x \in XAxisVariants}
    \cup {Record(136, 68, GoodDate, BodyBytes(ov, GoodAxis, y, z)) \o Zeros(2) :
        ov \in {Raw.good, Raw.exp_zero},
        y \in {GoodAxis, AxisBytes(Raw.good, Raw.good, 65535, Raw.no_data,
                                   Raw.good, Raw.good, 65534)},
        z \in {GoodAxis, AxisBytes(Raw.overload, Raw.good, 101, Raw.good,
                                   Raw.good, Raw.good, 37)}}

\* the (rec, read_type) of the direct calls
UnitCalls ==
    (HeaderRecords \X (0..MaxReadType)) \cup (FieldRecords \X {2})

\* ------------------------------------------------------------------------
\* The reader
\* ------------------------------------------------------------------------
Init ==
    \E sc \in Scenarios :
        /\ stream = sc.stream
        /\ fpos = 0
        /\ print_header = sc.print_header
        /\ print_number = sc.print_number
        /\ filter_today = sc.filter_today
        /\ long_format = sc.long_format
        /\ date_filter = sc.date_filter
        /\ today = <<2024, 3, 15>>
        /\ chunk_size = sc.chunk_size
        /\ is_kb_mode = FALSE
        /\ records_processed = 0
        /\ records_skipped = 0
        /\ record_counter = 0
        /\ window = <<>>
        /\ window_cap = sc.chunk_size * 2
        /\ scan_idx = 0
        /\ window_start_pos = 0
        /\ record_count = 0
        /\ last_record = <<>>
        /\ last_record_pos = -1
        /\ out = <<>>
        /\ pc = "start"
        /\ calls = <<>>
        /\ found = <<>>

\* the two header lines; the second column of every axis is named after
\* the mode
header_lines(kb) ==
    <<[kind |-> "header_names", kb |-> kb], [kind |-> "header_units", kb |-> kb]>>

WindowBecomes(w) ==
    /\ window' = w.window
    /\ window_cap' = w.cap
    /\ scan_idx' = w.scan_idx
    /\ window_start_pos' = w.window_start_pos
    /\ fpos' = w.fpos

\* process_vif_file up to the call of process_records
DetectKbMode ==
    /\ pc = "start"
    /\ is_kb_mode' = detect_kb_mode(stream)
    /\ out' = IF print_header THEN out \o header_lines(is_kb_mode') ELSE out
    /\ fpos' = 0
    /\ pc' = "scan"
    /\ UNCHANGED <<stream, config, records_processed, records_skipped,
                   record_counter, scanner, calls>>

\* a pass of the scan loop that ends it: kind says which ensure_bytes failed
ScanBreaks(it, kind) ==
    /\ pc = "scan"
    /\ it.kind = kind
    /\ WindowBecomes(it.w)
    /\ pc' = "flush"
    /\ UNCHANGED <<stream, config, reader, record_count, last_record,
                   last_record_pos, found, out, calls>>

ScanExhausted ==
    \E it \in {scan_iteration(stream, WindowState)} : ScanBreaks(it, "exhausted")

ScanTruncatedHeader ==
    \E it \in {scan_iteration(stream, WindowState)} : ScanBreaks(it, "header")

ScanTruncatedRecord ==
    \E it \in {scan_iteration(stream, WindowState)} : ScanBreaks(it, "body")

ScanContinues(it) ==
    /\ pc = "scan"
    /\ it.kind = "nomarker"
    /\ WindowBecomes(it.w)
    /\ pc' = "scan"
    /\ UNCHANGED <<stream, config, reader, record_count, last_record,
                   last_record_pos, found, out, calls>>

\* a pass that finds no marker in the window
ScanNoMarker ==
    \E it \in {scan_iteration(stream, WindowState)} : ScanContinues(it)

\* a pass that finds a candidate: the pending record is processed with the
\* read type of the distance to it, and the candidate becomes the pending
\* record.  When process_record raises, the assignments after the call are
\* not made.
ScanFinds(it) ==
    /\ pc = "scan"
    /\ it.kind = "candidate"
    /\ record_count' = record_count + 1
    /\ found' = Append(found, it.w.window_start_pos + it.i)
    /\ IF last_record # <<>> /\ last_record_pos >= 0
       THEN process_record(
                last_record,
                get_read_type_from_delta(
                    it.w.window_start_pos + it.i - last_record_pos),
                "scan")
       ELSE /\ pc' = "scan"
            /\ UNCHANGED <<records_processed, records_skipped,
                           record_counter, out, calls>>
    /\ IF pc' = "error"
       THEN /\ WindowBecomes(it.w)
            /\ UNCHANGED <<last_record, last_record_pos>>
       ELSE /\ WindowBecomes([it.w EXCEPT !.scan_idx = it.i + it.advance])
            /\ last_record' = copy_record(it.w.window, it.i, it.advance)
            /\ last_record_pos' = it.w.window_start_pos + it.i
    /\ UNCHANGED <<stream, config, is_kb_mode>>

ScanCandidate ==
    \E it \in {scan_iteration(stream, WindowState)} : ScanFinds(it)

\* after the loop: the pending record is processed with read type 2
Flush ==
    /\ pc = "flush"
    /\ IF last_record # <<>>
       THEN process_record(last_record, 2, "done")
       ELSE /\ pc' = "done"
            /\ UNCHANGED <<records_processed, records_skipped,
                           record_counter, out, calls>>
    /\ UNCHANGED <<stream, fpos, config, is_kb_mode, scanner>>

\* process_record called on its own, on a reader that has read nothing
DirectProcessRecord ==
    /\ pc = "start"
    /\ stream = <<>>
    /\ \E c \in UnitCalls : process_record(c[1], c[2], "returned")
    /\ UNCHANGED <<stream, fpos, config, is_kb_mode, scanner>>

\* the steps of process_vif_file
ReaderStep ==
    \/ DetectKbMode
    \/ ScanExhausted
    \/ ScanNoMarker
    \/ ScanTruncatedHeader
    \/ ScanTruncatedRecord
    \/ ScanCandidate
    \/ Flush

Next == ReaderStep \/ DirectProcessRecord

Spec == Init /\ [][Next]_vars

\* process_vif_file is straight-line code around loops: once called it
\* runs on as long as it has a step to take
FairSpec == Spec /\ WF_vars(ReaderStep)

\* ------------------------------------------------------------------------
\* Properties
\* ------------------------------------------------------------------------
\* the data rows written so far
IsRow(e) == e.kind = "row"
Rows == SelectSeq(out, IsRow)

Last(seq) == seq[Len(seq)]

\* the reader has ended, normally or by an exception
Terminated == pc \in {"done", "error", "returned"}

\* a record as process_record receives it from the scanner
Pad(rec) == rec \o Zeros(RECORD_BUFFER_SIZE - Len(rec))

\* the stream offsets at which the marker stands
MarkerOffsets(f) == {k \in 0..(Len(f) - 3) : IsMarkerAt(f, k)}

\* a 68-byte record with type 0x88 or 0x8A, size 68 and a valid date
ValidRecord(rec) ==
    /\ Len(rec) = 68
    /\ IsMarkerAt(rec, 0)
    /\ At(rec, 3) \in {136, 138}
    /\ u16_le(rec, 4) = 68
    /\ datetime_valid(At(rec, 6), At(rec, 7), At(rec, 8), At(rec, 9),
                      At(rec, 10), At(rec, 11))

\* what process_record writes for rec in a back-to-back stream, where it is
\* passed with read type 2
RowsOf(rec) ==
    IF record_rejected(rec, 2) \/ decode_row(rec).err THEN <<>>
    ELSE <<[kind |-> "row", row |-> decode_row(rec).val]>>

FirstRecord == Slice(stream, 0, 68)
SecondRecord == Slice(stream, Len(stream) - 68, Len(stream))

\* the stream is two valid records and nothing else
BackToBackPair ==
    /\ Len(stream) = 136
    /\ ValidRecord(FirstRecord) /\ ValidRecord(SecondRecord)
    /\ MarkerOffsets(stream) = {0, 68}

\* the stream is two valid records with marker-free noise between them
NoisyPair ==
    /\ Len(stream) > 136
    /\ ValidRecord(FirstRecord) /\ ValidRecord(SecondRecord)
    /\ MarkerOffsets(stream) = {0, Len(stream) - 68}

\* the first read of process_records takes the whole stream into the window
FitsWindow == Len(stream) <= 2 * chunk_size

C1_PassedInOrder(read_type) ==
    /\ calls[1] = [rec |-> Pad(FirstRecord), read_type |-> read_type]
    /\ Len(calls) <= 2
    /\ Len(calls) = 2
           => calls[2] = [rec |-> Pad(SecondRecord), read_type |-> 2]

\* the scan has ended with the first record as its only candidate: it was
\* pending and the flush passed it with read type 2
C1_FirstFlushed ==
    /\ calls = <<[rec |-> Pad(FirstRecord), read_type |-> 2]>>
    /\ pc = "done" => Rows = RowsOf(Pad(FirstRecord))

ReadTypeAfter(k) ==
    IF k = Len(found) THEN 2
    ELSE IF found[k + 1] - found[k] = 68 THEN 2 ELSE 5

\* C2: the candidates are passed to process_record one behind: while the
\* scan runs every candidate but the last found has been passed, when the
\* reader has ended all N have, in the order found (the k-th block passed
\* starts with the 12 header bytes at the k-th offset found), the first N-1
\* with read type 2 when the next candidate starts exactly 68 bytes on and
\* 5 otherwise, the N-th with read type 2.
C2_OneBehindEmission ==
    /\ (pc = "scan" /\ found # <<>>) => Len(calls) = Len(found) - 1
    /\ (pc \in {"done", "error"} /\ found # <<>>)
           => /\ Len(calls) = Len(found)
              /\ \A k \in 1..Len(found) :
                    /\ calls[k].read_type = ReadTypeAfter(k)
                    /\ Slice(calls[k].rec, 0, MIN_RECORD_BYTES)
                           = Slice(stream, found[k], found[k] + MIN_RECORD_BYTES)

\* the call of process_record made by this step
CallMade == calls' # calls
TheCall == calls'[Len(calls')]

\* C3, as the spec states it: a candidate that starts at a distance other
\* than 68 from the candidate found before it is skipped and gives no row.
C3_RejectsAfterGap ==
    [][(CallMade /\ Len(calls') >= 2
            /\ found'[Len(calls')] - found'[Len(calls') - 1] # 68)
        => (records_skipped' = records_skipped + 1 /\ out' = out)]_vars

\* C3, as the code has it: a candidate is skipped and gives no row when the
\* candidate found after it starts at a distance other than 68 from its own
\* start, whatever its type, size and date; the last candidate found is
\* passed with read type 2 and is not skipped for a distance.
C3_RejectsBeforeGap ==
    [][CallMade
        => /\ (Len(calls') < Len(found')
                  /\ found'[Len(calls') + 1] - found'[Len(calls')] # 68)
               => /\ TheCall.read_type = 5
                  /\ records_skipped' = records_skipped + 1
                  /\ out' = out
           /\ (pc = "flush") => TheCall.read_type = 2]_vars

\* two valid records 69 bytes apart, read to the end: the first is skipped
C3_Witness ==
    /\ pc = "done"
    /\ Len(found) = 2 /\ found[2] - found[1] = 69
    /\ found[2] + 68 <= Len(stream)
    /\ ValidRecord(Slice(stream, found[1], found[1] + 68))
    /\ ValidRecord(Slice(stream, found[2], found[2] + 68))
    /\ calls[1].read_type = 5
    /\ records_skipped = 1 /\ records_processed = 1

\* the conditions of acceptance, as the spec lists them
C4_DayCount(month, year_yy) ==
    IF month = 2 THEN (IF year_yy % 4 = 0 THEN 29 ELSE 28)
    ELSE IF month \in {4, 6, 9, 11} THEN 30 ELSE 31

C4_DateOk(rec) ==
    /\ At(rec, 6) <= 59 /\ At(rec, 7) <= 59 /\ At(rec, 8) <= 23
    /\ At(rec, 11) <= 99
    /\ At(rec, 10) \in 1..12
    /\ At(rec, 9) \in 1..C4_DayCount(At(rec, 10), At(rec, 11))

C4_FilterOk(rec) ==
    IF filter_today THEN <<2000 + At(rec, 11), At(rec, 10), At(rec, 9)>> = today
    ELSE IF date_filter # <<>>
    THEN <<2000 + At(rec, 11), At(rec, 10), At(rec, 9)>> = date_filter
    ELSE TRUE

C4_Accepts(rec, read_type) ==
    /\ read_type \in {0, 2, 6}
    /\ u16_le(rec, 4) = 68
    /\ At(rec, 3) \in {136, 138}
    /\ C4_DateOk(rec)
    /\ C4_FilterOk(rec)

\* C4: a call of process_record on a candidate that meets every condition
\* adds one to records_processed and writes exactly one row; any other call
\* adds one to records_skipped and writes nothing.
C4_AcceptsIffValid ==
    [][CallMade
        => IF C4_Accepts(TheCall.rec, TheCall.read_type)
           THEN /\ records_processed' = records_processed + 1
                /\ records_skipped' = records_skipped
                /\ Len(out') = Len(out) + 1
                /\ IsRow(Last(out'))
           ELSE /\ records_skipped' = records_skipped + 1
                /\ records_processed' = records_processed
                /\ out' = out]_vars

\* C5: process_record never ends in an exception, so neither does the scan.
C5_NoAbort == pc # "error"

\* the offsets at which a scan that loses nothing finds candidates from pos
\* on: the next marker counts when max(declared size, 12) bytes follow it,
\* and the scan ends at a marker the stream cuts short
RECURSIVE CompleteScan(_, _)
CompleteScanAt(f, m) ==
    IF m + 12 > Len(f) THEN <<>>
    ELSE IF m + Max(u16_le(f, m + 4), 12) > Len(f) THEN <<>>
    ELSE <<m>> \o CompleteScan(f, m + Max(u16_le(f, m + 4), 12))
CompleteScan(f, pos) ==
    IF {m \in MarkerOffsets(f) : m >= pos} = {} THEN <<>>
    ELSE CompleteScanAt(f, SetMin({m \in MarkerOffsets(f) : m >= pos}))

\* C6: when process_records returns, every marker that starts at or after
\* the end of the candidate before it and has max(declared size, 12) bytes
\* of the stream from it on has been found and passed to process_record,
\* whatever the size of the window.
C6_ScannerComplete ==
    (pc = "done")
        => /\ found = CompleteScan(stream, 0)
           /\ Len(calls) = Len(found)

\* the stream offset of the scan cursor
Cursor == window_start_pos + scan_idx

\* a step of the scan loop that finds a candidate, and one that finds none
CandidateStep == pc = "scan" /\ found' # found /\ pc' = "scan"
NoMarkerStep == pc = "scan" /\ found' = found /\ pc' = "scan"

\* the cursor stands max(declared size, 12) after the start of the
\* candidate just found
AdvancedByDeclaredSize ==
    Cursor' = Last(found') + Max(u16_le(stream, Last(found') + 4), 12)

\* C7: process_records ends; every candidate found moves the cursor on to
\* max(declared size, 12) >= 12 bytes after its start; and every pass of
\* the loop that finds no marker reads at least one byte or ends the scan.
C7_EveryPassReads ==
    /\ <>Terminated
    /\ [][/\ CandidateStep => (AdvancedByDeclaredSize /\ Cursor' >= Cursor + 12)
          /\ NoMarkerStep => fpos' > fpos]_vars

\* the status the spec gives a raw value whose decoded value is d
C8_StatusOf(d) ==
    IF d \in -4..-1 THEN d ELSE IF d > 99999999 THEN sys_maxsize ELSE 0

C8_FieldOk(value_u16) ==
    /\ ~ sv_is_value_valid(value_u16).err
    /\ ~ sv_from_float16(_to_i16(value_u16)).err
    /\ sv_is_value_valid(value_u16).val \in {0, -1, -2, -3, -4, sys_maxsize}
    /\ sv_is_value_valid(value_u16).val
           = C8_StatusOf(sv_from_float16(_to_i16(value_u16)).val)

C8_AxisOk(rec, off) ==
    /\ \A d \in {0, 6, 8, 10} : C8_FieldOk(u16_le(rec, off + d))
    /\ ~ axis_status(rec, off).err
    /\ axis_status(rec, off).val \in {0, -1, -2, -3, -4, sys_maxsize}

\* C8: for the fields of every record given to process_record,
\* sv_is_value_valid returns one of 0, -1, -2, -3, -4, MAX (the sentinel
\* for a decoded value in -4..-1, MAX above 99,999,999, else 0), and so do
\* axis_status and get_overall_status.
C8_StatusDomain ==
    \A k \in 1..Len(calls) :
        /\ \A off \in AxisOffsets : C8_AxisOk(calls[k].rec, off)
        /\ get_overall_status(axis_status(calls[k].rec, 14).val,
                              axis_status(calls[k].rec, 28).val,
                              axis_status(calls[k].rec, 42).val)
               \in {0, -1, -2, -3, -4, sys_maxsize}

\* the status of an axis as the spec defines it: the first of the statuses
\* of v, u, a, cv that is not OK
C9_FieldStatus(rec, off) == sv_is_value_valid(u16_le(rec, off)).val

C9_AxisStatus(rec, off) ==
    IF C9_FieldStatus(rec, off) # 0 THEN C9_FieldStatus(rec, off)
    ELSE IF C9_FieldStatus(rec, off + 6) # 0 THEN C9_FieldStatus(rec, off + 6)
    ELSE IF C9_FieldStatus(rec, off + 8) # 0 THEN C9_FieldStatus(rec, off + 8)
    ELSE C9_FieldStatus(rec, off + 10)

C9_StateName(status) ==
    CASE status = 0 -> ""
      [] status = -1 -> "DISCONNECTED"
      [] status = -2 -> "DATA INVALID"
      [] status = -3 -> "NO DATA"
      [] status = -4 -> "NOT RESPONDING"
      [] OTHER -> "OVERLOAD"

C9_ValuesEmpty(a) ==
    /\ a.v.empty /\ a.kb.empty /\ a.ft.empty /\ a.u.empty
    /\ a.a.empty /\ a.cv.empty /\ a.cf.empty

C9_AxisOk(rec, off, a) ==
    /\ a.state = C9_StateName(C9_AxisStatus(rec, off))
    /\ C9_AxisStatus(rec, off) # 0 => C9_ValuesEmpty(a)

\* C9: in every row written, the state column of each axis names the status
\* of the first of its v, u, a, cv fields that is not OK (empty when all
\* are OK), and when the status is not OK the seven value columns of the
\* axis are empty.
C9_AxisStatusAndSuppression ==
    [][(CallMade /\ Len(out') = Len(out) + 1)
        => /\ C9_AxisOk(TheCall.rec, 14, Last(out').row.x)
           /\ C9_AxisOk(TheCall.rec, 28, Last(out').row.y)
           /\ C9_AxisOk(TheCall.rec, 42, Last(out').row.z)]_vars

\* a row written for a record whose x block has v and u OK and a NO DATA,
\* and whose y block is OK
C9_Witness ==
    /\ Len(calls) = 1 /\ Len(Rows) = 1
    /\ C9_FieldStatus(calls[1].rec, 14) = 0
    /\ C9_FieldStatus(calls[1].rec, 14 + 6) = 0
    /\ C9_FieldStatus(calls[1].rec, 14 + 8) = -3
    /\ Rows[1].row.x.state = "NO DATA"
    /\ C9_ValuesEmpty(Rows[1].row.x)
    /\ Rows[1].row.y.state = ""
    /\ ~ Rows[1].row.y.v.empty

\* C10: detect_kb_mode returns true exactly when one of the records the
\* scanner finds in the stream has type byte 0x8A.
C10_ModeMatchesScan ==
    (pc = "done")
        => (is_kb_mode <=> \E k \in 1..Len(calls) : At(calls[k].rec, 3) = 138)

\* a step of a file's scan that writes a data row: the row is the one of
\* the record just passed to process_record
C11_RowWritten ==
    /\ stream # <<>>
    /\ Len(out') = Len(out) + 1
    /\ IsRow(Last(out'))

\* the second column of the axis is what the branch named by the file's
\* flag gives for the raw field at off + 2
C11_AxisByFlag(a, rec, off) ==
    a.state = ""
        => LET byFlag == kb_field(i16_le(rec, off + 2), is_kb_mode, long_format)
           IN  ~ byFlag.err /\ a.kb = byFlag.val

\* C11: within one file every written row decodes the second per-axis field
\* with the branch the flag of detect_kb_mode selects, the KB rule when it
\* is true and the zero-crossing rule when it is false, which is the column
\* the header names.
C11_FileScopedKbMode ==
    [][C11_RowWritten
          => /\ out[1] = [kind |-> "header_names", kb |-> is_kb_mode]
             /\ C11_AxisByFlag(Last(out').row.x, Last(calls').rec, 14)
             /\ C11_AxisByFlag(Last(out').row.y, Last(calls').rec, 28)
             /\ C11_AxisByFlag(Last(out').row.z, Last(calls').rec, 42)]_vars

\* the number of bytes copied for a candidate whose marker stands at pos
C12_CopyLen(pos) ==
    Min(Max(u16_le(stream, pos + 4), MIN_RECORD_BYTES), RECORD_BUFFER_SIZE)

\* the block rec is the candidate of the stream at pos: the marker, the
\* bytes of the stream from pos on, then zeros
C12_BlockOf(rec, pos) ==
    /\ Len(rec) = RECORD_BUFFER_SIZE
    /\ IsMarkerAt(rec, 0)
    /\ pos + MIN_RECORD_BYTES <= Len(stream)
    /\ pos + C12_CopyLen(pos) <= Len(stream)
    /\ \A j \in 0..(RECORD_BUFFER_SIZE - 1) :
           At(rec, j) = IF j < C12_CopyLen(pos) THEN At(stream, pos + j) ELSE 0

\* C12: whatever the window does between finding a marker and reading its
\* header, every block passed to process_record begins with 'V','I','B',
\* holds the min(max(declared size, 12), 70) bytes of the stream at the
\* offset recorded for it and zeros after them, and the scan moves on by the
\* size field of that same marker.
C12_CandidateFidelity ==
    /\ [](stream # <<>>
             => \A k \in 1..Len(calls) : C12_BlockOf(calls[k].rec, found[k]))
    /\ [][CandidateStep => AdvancedByDeclaredSize]_vars

\* a marker at or after pos that the stream ends before the header or the
\* max(declared size, 12) bytes of
C13_TrailingMarker(pos) ==
    \E m \in MarkerOffsets(stream) :
        /\ m >= pos
        /\ \/ m + MIN_RECORD_BYTES > Len(stream)
           \/ m + Max(u16_le(stream, m + 4), MIN_RECORD_BYTES) > Len(stream)

\* the scan loop ends on a marker the source runs out on
C13_BreaksOnTrailingMarker ==
    pc = "scan" /\ pc' = "flush" /\ C13_TrailingMarker(Cursor')

\* the flush after the loop passes the pending candidate with read type 2
C13_FlushesPending ==
    (pc = "flush" /\ pc' # "flush" /\ last_record # <<>>)
        => calls' = Append(calls, [rec |-> last_record, read_type |-> 2])

\* C13: when process_records returns normally every candidate counted has
\* been processed or skipped and every processed record has its row; a
\* trailing marker the source runs out on is not counted and writes
\* nothing, and the candidate pending before it is flushed with read type 2.
C13_RecordAccounting ==
    /\ [](pc = "done"
             => /\ records_processed + records_skipped = record_count
                /\ Len(Rows) = records_processed
                /\ Len(calls) = record_count)
    /\ [][/\ C13_BreaksOnTrailingMarker
                 => UNCHANGED <<record_count, records_processed,
                                records_skipped, out, calls>>
          /\ C13_FlushesPending]_vars

\* a file of a skipped candidate, a processed one and a truncated marker
\* has been read to its end
C13_Witness ==
    /\ pc = "done"
    /\ record_count = 2
    /\ records_skipped = 1
    /\ records_processed = 1
    /\ Len(Rows) = 1
    /\ Last(calls).read_type = 2
    /\ C13_TrailingMarker(found[2] + 1)

=============================================================================
